---- MODULE Spec2Model ----
(***************************************************************************)
(* Transfer resource state trackers of Blaze4D-core                        *)
(* (src/src/device/transfer/resource_state.rs): BufferStateTracker and     *)
(* ImageStateTracker, the barriers they push into the caller's Vec, and    *)
(* the history needed to state the properties of the specification.        *)
(***************************************************************************)
EXTENDS Integers, Sequences, FiniteSets, TLC

(***************************************************************************)
(* Bounds and input sets                                                   *)
(***************************************************************************)
\* Number of tracker calls explored in one behaviour.
MaxCalls == 5

BufferIds == {"B1", "B2"}
ImageIds == {"I1", "I2"}
BufferHandles == {"hB1", "hB2"}
\* An Image object and the aspect mask its caller registers it with.
ImageInputs == {<<"hI1", {"COLOR"}>>, <<"hI2", {"DEPTH"}>>}

(***************************************************************************)
(* vk vocabulary                                                           *)
(***************************************************************************)
TRANSFER_READ == "TRANSFER_READ"
TRANSFER_WRITE == "TRANSFER_WRITE"
TRANSFER == "TRANSFER"
UNDEFINED == "UNDEFINED"
TRANSFER_SRC_OPTIMAL == "TRANSFER_SRC_OPTIMAL"
TRANSFER_DST_OPTIMAL == "TRANSFER_DST_OPTIMAL"
WHOLE_SIZE == "WHOLE_SIZE"
REMAINING_MIP_LEVELS == "REMAINING_MIP_LEVELS"
REMAINING_ARRAY_LAYERS == "REMAINING_ARRAY_LAYERS"

\* vk::AccessFlags2 restricted to the two bits the trackers use; a mask is
\* the set of its bits, | is \cup and empty() is {}.
AccessKinds == {TRANSFER_READ, TRANSFER_WRITE}
\* Layouts a caller registers an image with.
Layouts == {UNDEFINED, TRANSFER_SRC_OPTIMAL, TRANSFER_DST_OPTIMAL}

\* renderer/emulator/pass.rs: the threads that may hold a PassRecorder and the
\* shaders, global images and global meshes they are called with
Threads == {"T1", "T2"}
Shaders == {"S1", "S2"}
GlobalImages == {"G1", "G2"}
GlobalMeshes == {"M1"}
MaxTasks == 7
MaxMeshes == 1

VARIABLES
    buffers,        \* BufferStateTracker.buffers : BufferId -> BufferState
    images,         \* ImageStateTracker.images : ImageId -> ImageState
    bufBarriers,    \* the Vec<vk::BufferMemoryBarrier2> the caller passes in
    imgBarriers,    \* the Vec<vk::ImageMemoryBarrier2> the caller passes in
    bufHist,        \* history of each registered buffer since its register
    imgHist,        \* history of each registered image since its register
    lastCall,       \* the most recent call, its result and its pre-state
    released,       \* the entry most recently removed by release under each id
    ncalls          \* number of calls made so far

\* renderer/emulator/pass.rs: the pass recorder and what it shares
VARIABLES
    share,          \* Share: whether a pass is running and the next pass id
    tasks,          \* the WorkerTasks handed to Share::push_task, in order
    recorders,      \* the PassRecorder each thread holds, if any
    shaderUsed,     \* EmulatorPipeline: inc_shader_used calls per shader
    passCall        \* the most recent PassRecorder call and whether it panicked

trackerVars == <<buffers, images, bufBarriers, imgBarriers, bufHist, imgHist, lastCall,
                 released, ncalls>>
passVars == <<share, tasks, recorders, shaderUsed, passCall>>
vars == <<trackerVars, passVars>>

(***************************************************************************)
(* HashMap helpers                                                         *)
(***************************************************************************)
MapInsert(m, k, v) == [x \in (DOMAIN m) \cup {k} |-> IF x = k THEN v ELSE m[x]]
MapRemove(m, k) == [x \in (DOMAIN m) \ {k} |-> m[x]]
EmptyMap == [x \in {} |-> {}]

(***************************************************************************)
(* BufferState                                                             *)
(***************************************************************************)
\* BufferState::new that starts with a pending write.
BufferState_new_WritePending(handle) ==
    [handle |-> handle, read_pending |-> FALSE, write_pending |-> TRUE]

BufferState_new(handle) ==
    [handle |-> handle, read_pending |-> FALSE, write_pending |-> FALSE]

\* BufferSrcAccessMask whose write test looks at read_pending only.
BufferSrcAccessMask_NoWAW(self, read, write) ==
    (IF read /\ self.write_pending THEN {TRANSFER_WRITE} ELSE {})
    \cup (IF write /\ self.read_pending
          THEN {TRANSFER_WRITE, TRANSFER_READ} ELSE {})

\* BufferSrcAccessMask that also treats a read after a read as a hazard.
BufferSrcAccessMask_ReadAfterRead(self, read, write) ==
    (IF read /\ (self.write_pending \/ self.read_pending) THEN {TRANSFER_WRITE} ELSE {})
    \cup (IF write /\ (self.write_pending \/ self.read_pending)
          THEN {TRANSFER_WRITE, TRANSFER_READ} ELSE {})

\* BufferSrcAccessMask with the write-after-read hazard left out.
BufferSrcAccessMask_NoWAR(self, read, write) ==
    (IF read /\ self.write_pending THEN {TRANSFER_WRITE} ELSE {})
    \cup (IF write /\ self.write_pending
          THEN {TRANSFER_WRITE, TRANSFER_READ} ELSE {})

\* The source access mask computed by BufferState::update_state.
BufferSrcAccessMask(self, read, write) ==
    (IF read /\ self.write_pending THEN {TRANSFER_WRITE} ELSE {})
    \cup (IF write /\ (self.write_pending \/ self.read_pending)
          THEN {TRANSFER_WRITE, TRANSFER_READ} ELSE {})

\* BufferMemoryBarrier that starts one byte into the buffer.
BufferMemoryBarrier_OffsetOne(self, src_access_mask) ==
    [src_stage_mask |-> {TRANSFER},
     src_access_mask |-> src_access_mask,
     dst_stage_mask |-> {TRANSFER},
     dst_access_mask |-> {TRANSFER_READ, TRANSFER_WRITE},
     buffer |-> self.handle,
     offset |-> 1,
     size |-> WHOLE_SIZE]

BufferMemoryBarrier(self, src_access_mask) ==
    [src_stage_mask |-> {TRANSFER},
     src_access_mask |-> src_access_mask,
     dst_stage_mask |-> {TRANSFER},
     dst_access_mask |-> {TRANSFER_READ, TRANSFER_WRITE},
     buffer |-> self.handle,
     offset |-> 0,
     size |-> WHOLE_SIZE]

\* BufferState::update_state that clears the flushed flags when it pushes a
\* barrier and keeps only the announced access.
BufferState_update_state_ClearAfterBarrier(self, read, write) ==
    LET src_access_mask == BufferSrcAccessMask(self, read, write) IN
    IF src_access_mask # {}
    THEN [state |-> [self EXCEPT !.read_pending = read, !.write_pending = write],
          pushed |-> <<BufferMemoryBarrier(self, src_access_mask)>>]
    ELSE [state |-> [self EXCEPT !.read_pending = self.read_pending \/ read,
                                 !.write_pending = self.write_pending \/ write],
          pushed |-> <<>>]

\* BufferState::update_state that pushes one barrier per hazard test.
BufferState_update_state_TwoBarriers(self, read, write) ==
    [state |-> [self EXCEPT !.read_pending = self.read_pending \/ read,
                            !.write_pending = self.write_pending \/ write],
     pushed |-> (IF read /\ self.write_pending
                 THEN <<BufferMemoryBarrier(self, {TRANSFER_WRITE})>> ELSE <<>>)
                \o (IF write /\ (self.write_pending \/ self.read_pending)
                    THEN <<BufferMemoryBarrier(self, {TRANSFER_WRITE, TRANSFER_READ})>>
                    ELSE <<>>)]

\* BufferState::update_state that overwrites write_pending with the argument
\* instead of accumulating it.
BufferState_update_state_Overwrite(self, read, write) ==
    LET src_access_mask == BufferSrcAccessMask(self, read, write) IN
    [state |-> [self EXCEPT !.read_pending = read,
                            !.write_pending = write],
     pushed |-> IF src_access_mask # {}
                THEN <<BufferMemoryBarrier(self, src_access_mask)>>
                ELSE <<>>]

\* Result: the state after the call and the barriers pushed by it.
BufferState_update_state(self, read, write) ==
    LET src_access_mask == BufferSrcAccessMask(self, read, write) IN
    [state |-> [self EXCEPT !.read_pending = self.read_pending \/ read,
                            !.write_pending = self.write_pending \/ write],
     pushed |-> IF src_access_mask # {}
                THEN <<BufferMemoryBarrier(self, src_access_mask)>>
                ELSE <<>>]

(***************************************************************************)
(* ImageState                                                              *)
(***************************************************************************)
\* ImageMemoryBarrier that always transitions from UNDEFINED.
ImageMemoryBarrier_UndefinedOld(self, src_access_mask, dst_access_mask, new_layout) ==
    [src_stage_mask |-> {TRANSFER},
     src_access_mask |-> src_access_mask,
     dst_stage_mask |-> {TRANSFER},
     dst_access_mask |-> dst_access_mask,
     old_layout |-> UNDEFINED,
     new_layout |-> new_layout,
     image |-> self.handle,
     subresource_range |-> [aspect_mask |-> self.aspect_mask,
                            base_mip_level |-> 0,
                            level_count |-> REMAINING_MIP_LEVELS,
                            base_array_layer |-> 0,
                            layer_count |-> REMAINING_ARRAY_LAYERS]]

\* ImageMemoryBarrier with the COLOR aspect written out instead of the stored
\* aspect mask.
ImageMemoryBarrier_ColorAspect(self, src_access_mask, dst_access_mask, new_layout) ==
    [src_stage_mask |-> {TRANSFER},
     src_access_mask |-> src_access_mask,
     dst_stage_mask |-> {TRANSFER},
     dst_access_mask |-> dst_access_mask,
     old_layout |-> self.layout,
     new_layout |-> new_layout,
     image |-> self.handle,
     subresource_range |-> [aspect_mask |-> {"COLOR"},
                            base_mip_level |-> 0,
                            level_count |-> REMAINING_MIP_LEVELS,
                            base_array_layer |-> 0,
                            layer_count |-> REMAINING_ARRAY_LAYERS]]

\* ImageState::new that ignores the layout argument.
ImageState_new_UndefinedLayout(handle, aspect_mask, layout) ==
    [handle |-> handle, aspect_mask |-> aspect_mask, layout |-> UNDEFINED,
     read_pending |-> FALSE, write_pending |-> FALSE]

ImageState_new(handle, aspect_mask, layout) ==
    [handle |-> handle, aspect_mask |-> aspect_mask, layout |-> layout,
     read_pending |-> FALSE, write_pending |-> FALSE]

ImageMemoryBarrier(self, src_access_mask, dst_access_mask, new_layout) ==
    [src_stage_mask |-> {TRANSFER},
     src_access_mask |-> src_access_mask,
     dst_stage_mask |-> {TRANSFER},
     dst_access_mask |-> dst_access_mask,
     old_layout |-> self.layout,
     new_layout |-> new_layout,
     image |-> self.handle,
     subresource_range |-> [aspect_mask |-> self.aspect_mask,
                            base_mip_level |-> 0,
                            level_count |-> REMAINING_MIP_LEVELS,
                            base_array_layer |-> 0,
                            layer_count |-> REMAINING_ARRAY_LAYERS]]

\* update_state_read that pushes its barrier without storing the new layout.
ImageState_update_state_read_KeepLayout(self) ==
    IF self.layout # TRANSFER_SRC_OPTIMAL \/ self.write_pending
    THEN [state |-> [self EXCEPT !.write_pending = FALSE,
                                 !.read_pending = TRUE],
          pushed |-> <<ImageMemoryBarrier(self, {TRANSFER_WRITE}, {TRANSFER_READ},
                                          TRANSFER_SRC_OPTIMAL)>>]
    ELSE [state |-> self, pushed |-> <<>>]

\* update_state_read whose guard also fires on a pending read.
ImageState_update_state_read_ReadHazard(self) ==
    IF self.layout # TRANSFER_SRC_OPTIMAL \/ self.write_pending \/ self.read_pending
    THEN [state |-> [self EXCEPT !.layout = TRANSFER_SRC_OPTIMAL,
                                 !.write_pending = FALSE,
                                 !.read_pending = TRUE],
          pushed |-> <<ImageMemoryBarrier(self, {TRANSFER_WRITE}, {TRANSFER_READ},
                                          TRANSFER_SRC_OPTIMAL)>>]
    ELSE [state |-> self, pushed |-> <<>>]

\* update_state_read that sets read_pending also when it pushes no barrier.
ImageState_update_state_read_AlwaysPending(self) ==
    IF self.layout # TRANSFER_SRC_OPTIMAL \/ self.write_pending
    THEN [state |-> [self EXCEPT !.layout = TRANSFER_SRC_OPTIMAL,
                                 !.write_pending = FALSE,
                                 !.read_pending = TRUE],
          pushed |-> <<ImageMemoryBarrier(self, {TRANSFER_WRITE}, {TRANSFER_READ},
                                          TRANSFER_SRC_OPTIMAL)>>]
    ELSE [state |-> [self EXCEPT !.read_pending = TRUE], pushed |-> <<>>]

\* update_state_read whose guard joins its two conditions with && instead of ||.
ImageState_update_state_read_AndGuard(self) ==
    IF self.layout # TRANSFER_SRC_OPTIMAL /\ self.write_pending
    THEN [state |-> [self EXCEPT !.layout = TRANSFER_SRC_OPTIMAL,
                                 !.write_pending = FALSE,
                                 !.read_pending = TRUE],
          pushed |-> <<ImageMemoryBarrier(self, {TRANSFER_WRITE}, {TRANSFER_READ},
                                          TRANSFER_SRC_OPTIMAL)>>]
    ELSE [state |-> self, pushed |-> <<>>]

\* update_state_read that sets read_pending without clearing write_pending.
ImageState_update_state_read_KeepWrite(self) ==
    IF self.layout # TRANSFER_SRC_OPTIMAL \/ self.write_pending
    THEN [state |-> [self EXCEPT !.layout = TRANSFER_SRC_OPTIMAL,
                                 !.read_pending = TRUE],
          pushed |-> <<ImageMemoryBarrier(self, {TRANSFER_WRITE}, {TRANSFER_READ},
                                          TRANSFER_SRC_OPTIMAL)>>]
    ELSE [state |-> self, pushed |-> <<>>]

ImageState_update_state_read(self) ==
    IF self.layout # TRANSFER_SRC_OPTIMAL \/ self.write_pending
    THEN [state |-> [self EXCEPT !.layout = TRANSFER_SRC_OPTIMAL,
                                 !.write_pending = FALSE,
                                 !.read_pending = TRUE],
          pushed |-> <<ImageMemoryBarrier(self, {TRANSFER_WRITE}, {TRANSFER_READ},
                                          TRANSFER_SRC_OPTIMAL)>>]
    ELSE [state |-> self, pushed |-> <<>>]

\* update_state_write whose guard tests the layout only.
ImageState_update_state_write_LayoutOnly(self) ==
    IF self.layout # TRANSFER_DST_OPTIMAL
    THEN [state |-> [self EXCEPT !.layout = TRANSFER_DST_OPTIMAL,
                                 !.write_pending = TRUE,
                                 !.read_pending = FALSE],
          pushed |-> <<ImageMemoryBarrier(self, {TRANSFER_READ, TRANSFER_WRITE},
                                          {TRANSFER_WRITE}, TRANSFER_DST_OPTIMAL)>>]
    ELSE [state |-> self, pushed |-> <<>>]

\* update_state_write that pushes its barrier without storing the new layout.
ImageState_update_state_write_KeepLayout(self) ==
    IF self.layout # TRANSFER_DST_OPTIMAL \/ self.read_pending \/ self.write_pending
    THEN [state |-> [self EXCEPT !.write_pending = TRUE,
                                 !.read_pending = FALSE],
          pushed |-> <<ImageMemoryBarrier(self, {TRANSFER_READ, TRANSFER_WRITE},
                                          {TRANSFER_WRITE}, TRANSFER_DST_OPTIMAL)>>]
    ELSE [state |-> self, pushed |-> <<>>]

\* update_state_write whose guard does not look at write_pending.
ImageState_update_state_write_NoWAW(self) ==
    IF self.layout # TRANSFER_DST_OPTIMAL \/ self.read_pending
    THEN [state |-> [self EXCEPT !.layout = TRANSFER_DST_OPTIMAL,
                                 !.write_pending = TRUE,
                                 !.read_pending = FALSE],
          pushed |-> <<ImageMemoryBarrier(self, {TRANSFER_READ, TRANSFER_WRITE},
                                          {TRANSFER_WRITE}, TRANSFER_DST_OPTIMAL)>>]
    ELSE [state |-> self, pushed |-> <<>>]

ImageState_update_state_write(self) ==
    IF self.layout # TRANSFER_DST_OPTIMAL \/ self.read_pending \/ self.write_pending
    THEN [state |-> [self EXCEPT !.layout = TRANSFER_DST_OPTIMAL,
                                 !.write_pending = TRUE,
                                 !.read_pending = FALSE],
          pushed |-> <<ImageMemoryBarrier(self, {TRANSFER_READ, TRANSFER_WRITE},
                                          {TRANSFER_WRITE}, TRANSFER_DST_OPTIMAL)>>]
    ELSE [state |-> self, pushed |-> <<>>]

\* The release mask without the read_pending test.
PendingAccessMask_WriteOnly(self) ==
    IF self.write_pending THEN {TRANSFER_WRITE} ELSE {}

\* The access mask both release functions build from the pending flags.
PendingAccessMask(self) ==
    (IF self.read_pending THEN {TRANSFER_READ} ELSE {})
    \cup (IF self.write_pending THEN {TRANSFER_WRITE} ELSE {})

(***************************************************************************)
(* History kept beside each entry (not program state)                      *)
(*   updated   : some update call succeeded on the id since its register   *)
(*   accessed  : some such call requested a read or a write                *)
(*   unflushed : access kinds requested since register that no barrier     *)
(*               pushed afterwards has in its source access mask           *)
(*   uncovered : pairs <<e, l>> such that an access of kind e was          *)
(*               requested and no barrier pushed afterwards has e in its   *)
(*               source and l in its destination access mask               *)
(*   reg_layout: layout given at register (images)                         *)
(*   reg_handle, reg_aspect : handle and aspect mask given at register     *)
(*   calls     : the access announced by each successful update since      *)
(*               register, in call order                                   *)
(*   barriers  : the barriers those updates pushed, in push order          *)
(*   pushes    : the number of barriers each of those updates pushed       *)
(***************************************************************************)
NewHist(handle, aspect_mask, layout) ==
    [updated |-> FALSE, accessed |-> FALSE, unflushed |-> {}, uncovered |-> {},
     reg_layout |-> layout, reg_handle |-> handle, reg_aspect |-> aspect_mask,
     calls |-> <<>>, barriers |-> <<>>, pushes |-> <<>>]

Flushes(pushed, e) == \E i \in 1..Len(pushed) : e \in pushed[i].src_access_mask
Covers(pushed, e, l) ==
    \E i \in 1..Len(pushed) :
        e \in pushed[i].src_access_mask /\ l \in pushed[i].dst_access_mask

\* The barriers of a call are recorded before the transfer that the call
\* announces, so they act on the earlier accesses only.
HistAfterUpdate(h, requested, pushed) ==
    [h EXCEPT !.updated = TRUE,
              !.accessed = h.accessed \/ requested # {},
              !.unflushed = {e \in h.unflushed : ~Flushes(pushed, e)} \cup requested,
              !.uncovered = {p \in h.uncovered : ~Covers(pushed, p[1], p[2])}
                            \cup (requested \X AccessKinds),
              !.calls = Append(h.calls, requested),
              !.barriers = h.barriers \o pushed,
              !.pushes = Append(h.pushes, Len(pushed))]

BufferRequested(read, write) ==
    (IF read THEN {TRANSFER_READ} ELSE {}) \cup (IF write THEN {TRANSFER_WRITE} ELSE {})

\* pre and preHist hold the entry and its history before the call (empty when
\* the id had no entry), sinkLen the length of the caller's Vec before it.
Call(op, id, read, write, ret, pre, preHist, sinkLen) ==
    [op |-> op, id |-> id, read |-> read, write |-> write, ret |-> ret,
     pre |-> pre, preHist |-> preHist, sinkLen |-> sinkLen, input |-> <<>>]

\* A register call: input is what the caller supplied besides the id.
RegisterCall(op, id, ret, pre, preHist, sinkLen, input) ==
    [Call(op, id, FALSE, FALSE, ret, pre, preHist, sinkLen) EXCEPT !.input = input]

RetNone == [tag |-> "None"]
RetErr == [tag |-> "Err"]
RetOk == [tag |-> "Ok"]

(***************************************************************************)
(* Share, as PassRecorder uses it                                          *)
(***************************************************************************)
Share_new == [running |-> FALSE, next_id |-> 0]

\* try_start_pass_id: the id of the pass it starts, or none while one runs
Share_try_start_pass_id(sh) ==
    IF sh.running
    THEN [share |-> sh, id |-> <<>>]
    ELSE [share |-> [running |-> TRUE, next_id |-> sh.next_id + 1],
          id |-> <<sh.next_id>>]

Share_end_pass_id(sh) == [sh EXCEPT !.running = FALSE]

Share_push_task(q, task) == Append(q, task)

(***************************************************************************)
(* PassRecorder                                                            *)
(***************************************************************************)
\* A WorkerTask with the identities it carries: the pass id of the recorder
\* that pushed it, the shader, the global image behind a sampler view, the
\* global mesh, the index of the immediate mesh (-1: none).
Task(kind, pass, shader, image, mesh, immediate) ==
    [kind |-> kind, pass |-> pass, shader |-> shader, image |-> image,
     mesh |-> mesh, immediate |-> immediate]

PassCall(op, thread, panicked, tasksLen) ==
    [op |-> op, thread |-> thread, panicked |-> panicked, tasksLen |-> tasksLen,
     shader |-> "", image |-> ""]

ShaderCall(op, thread, panicked, tasksLen, shader, image) ==
    [PassCall(op, thread, panicked, tasksLen) EXCEPT !.shader = shader, !.image = image]

\* use_shader that pushes UseShader on every call.
PassRecorder_use_shader_Always(self, q, used, shader) ==
    [self |-> [self EXCEPT !.used_shaders = @ \cup {shader}],
     tasks |-> Share_push_task(q, Task("UseShader", self.id, shader, "", "", -1)),
     used |-> [used EXCEPT ![shader] = @ + 1]]

PassRecorder_use_shader(self, q, used, shader) ==
    IF shader \notin self.used_shaders
    THEN [self |-> [self EXCEPT !.used_shaders = @ \cup {shader}],
          tasks |-> Share_push_task(q, Task("UseShader", self.id, shader, "", "", -1)),
          used |-> [used EXCEPT ![shader] = @ + 1]]
    ELSE [self |-> self, tasks |-> q, used |-> used]

(***************************************************************************)
(* Initial state: both trackers as returned by new()                       *)
(***************************************************************************)
Init ==
    /\ buffers = EmptyMap
    /\ images = EmptyMap
    /\ bufBarriers = <<>>
    /\ imgBarriers = <<>>
    /\ bufHist = EmptyMap
    /\ imgHist = EmptyMap
    /\ lastCall = Call("new", "", FALSE, FALSE, RetOk, <<>>, <<>>, 0)
    /\ released = EmptyMap
    /\ share = Share_new
    /\ tasks = <<>>
    /\ recorders = EmptyMap
    /\ shaderUsed = [s \in Shaders |-> 0]
    /\ passCall = PassCall("none", "", FALSE, 0)
    /\ ncalls = 0

(***************************************************************************)
(* BufferStateTracker                                                      *)
(***************************************************************************)
\* register that stores the new handle in an existing entry before it
\* returns Err.
BufferStateTracker_register_ReplaceHandle(id, handle) ==
    /\ ncalls < MaxCalls
    /\ ncalls' = ncalls + 1
    /\ IF id \in DOMAIN buffers
       THEN /\ buffers' = [buffers EXCEPT ![id].handle = handle]
            /\ UNCHANGED bufHist
            /\ lastCall' = RegisterCall("buffer_register", id, RetErr,
                                <<buffers[id]>>, <<bufHist[id]>>, Len(bufBarriers), <<handle>>)
       ELSE /\ buffers' = MapInsert(buffers, id, BufferState_new(handle))
            /\ bufHist' = MapInsert(bufHist, id, NewHist(handle, {}, UNDEFINED))
            /\ lastCall' = RegisterCall("buffer_register", id, RetOk,
                                <<>>, <<>>, Len(bufBarriers), <<handle>>)
    /\ UNCHANGED <<images, imgHist, bufBarriers, imgBarriers, released, passVars>>

BufferStateTracker_register(id, handle) ==
    /\ ncalls < MaxCalls
    /\ ncalls' = ncalls + 1
    /\ IF id \in DOMAIN buffers
       THEN /\ UNCHANGED <<buffers, bufHist>>
            /\ lastCall' = RegisterCall("buffer_register", id, RetErr,
                                <<buffers[id]>>, <<bufHist[id]>>, Len(bufBarriers), <<handle>>)
       ELSE /\ buffers' = MapInsert(buffers, id, BufferState_new(handle))
            /\ bufHist' = MapInsert(bufHist, id, NewHist(handle, {}, UNDEFINED))
            /\ lastCall' = RegisterCall("buffer_register", id, RetOk,
                                <<>>, <<>>, Len(bufBarriers), <<handle>>)
    /\ UNCHANGED <<images, imgHist, bufBarriers, imgBarriers, released, passVars>>

\* update_state that leaves a default entry behind for an unknown id.
BufferStateTracker_update_state_Lazy(id, read, write) ==
    /\ ncalls < MaxCalls
    /\ ncalls' = ncalls + 1
    /\ IF id \in DOMAIN buffers
       THEN LET r == BufferState_update_state(buffers[id], read, write) IN
            /\ buffers' = [buffers EXCEPT ![id] = r.state]
            /\ bufBarriers' = bufBarriers \o r.pushed
            /\ bufHist' = [bufHist EXCEPT ![id] =
                              HistAfterUpdate(@, BufferRequested(read, write), r.pushed)]
            /\ lastCall' = Call("buffer_update_state", id, read, write,
                                [tag |-> "Some", handle |-> r.state.handle],
                                <<buffers[id]>>, <<bufHist[id]>>, Len(bufBarriers))
       ELSE /\ buffers' = MapInsert(buffers, id, BufferState_new("null"))
            /\ bufHist' = MapInsert(bufHist, id, NewHist("null", {}, UNDEFINED))
            /\ UNCHANGED bufBarriers
            /\ lastCall' = Call("buffer_update_state", id, read, write, RetNone,
                                <<>>, <<>>, Len(bufBarriers))
    /\ UNCHANGED <<images, imgHist, imgBarriers, released, passVars>>

BufferStateTracker_update_state(id, read, write) ==
    /\ ncalls < MaxCalls
    /\ ncalls' = ncalls + 1
    /\ IF id \in DOMAIN buffers
       THEN LET r == BufferState_update_state(buffers[id], read, write) IN
            /\ buffers' = [buffers EXCEPT ![id] = r.state]
            /\ bufBarriers' = bufBarriers \o r.pushed
            /\ bufHist' = [bufHist EXCEPT ![id] =
                              HistAfterUpdate(@, BufferRequested(read, write), r.pushed)]
            /\ lastCall' = Call("buffer_update_state", id, read, write,
                                [tag |-> "Some", handle |-> r.state.handle],
                                <<buffers[id]>>, <<bufHist[id]>>, Len(bufBarriers))
       ELSE /\ UNCHANGED <<buffers, bufBarriers, bufHist>>
            /\ lastCall' = Call("buffer_update_state", id, read, write, RetNone,
                                <<>>, <<>>, Len(bufBarriers))
    /\ UNCHANGED <<images, imgHist, imgBarriers, released, passVars>>

\* release that returns the entry but leaves it in the map.
BufferStateTracker_release_KeepEntry(id) ==
    /\ ncalls < MaxCalls
    /\ ncalls' = ncalls + 1
    /\ IF id \in DOMAIN buffers
       THEN /\ released' = MapInsert(released, id, buffers[id])
            /\ UNCHANGED <<buffers, bufHist>>
            /\ lastCall' = Call("buffer_release", id, FALSE, FALSE,
                                [tag |-> "Some", handle |-> buffers[id].handle,
                                 access_mask |-> PendingAccessMask(buffers[id])],
                                <<buffers[id]>>, <<bufHist[id]>>, Len(bufBarriers))
       ELSE /\ UNCHANGED <<buffers, bufHist, released>>
            /\ lastCall' = Call("buffer_release", id, FALSE, FALSE, RetNone,
                                <<>>, <<>>, Len(bufBarriers))
    /\ UNCHANGED <<images, imgHist, bufBarriers, imgBarriers, passVars>>

BufferStateTracker_release(id) ==
    /\ ncalls < MaxCalls
    /\ ncalls' = ncalls + 1
    /\ IF id \in DOMAIN buffers
       THEN /\ buffers' = MapRemove(buffers, id)
            /\ released' = MapInsert(released, id, buffers[id])
            /\ bufHist' = MapRemove(bufHist, id)
            /\ lastCall' = Call("buffer_release", id, FALSE, FALSE,
                                [tag |-> "Some", handle |-> buffers[id].handle,
                                 access_mask |-> PendingAccessMask(buffers[id])],
                                <<buffers[id]>>, <<bufHist[id]>>, Len(bufBarriers))
       ELSE /\ UNCHANGED <<buffers, bufHist, released>>
            /\ lastCall' = Call("buffer_release", id, FALSE, FALSE, RetNone,
                                <<>>, <<>>, Len(bufBarriers))
    /\ UNCHANGED <<images, imgHist, bufBarriers, imgBarriers, passVars>>

(***************************************************************************)
(* ImageStateTracker                                                       *)
(***************************************************************************)
\* register without the contains_key test: insert replaces a live entry.
ImageStateTracker_register_Overwrite(id, handle, aspect_mask, layout) ==
    /\ ncalls < MaxCalls
    /\ ncalls' = ncalls + 1
    /\ images' = MapInsert(images, id, ImageState_new(handle, aspect_mask, layout))
    /\ imgHist' = MapInsert(imgHist, id, NewHist(handle, aspect_mask, layout))
    /\ lastCall' = RegisterCall("image_register", id, RetOk,
                        IF id \in DOMAIN images THEN <<images[id]>> ELSE <<>>,
                        IF id \in DOMAIN images THEN <<imgHist[id]>> ELSE <<>>,
                        Len(imgBarriers), <<handle, aspect_mask, layout>>)
    /\ UNCHANGED <<buffers, bufHist, bufBarriers, imgBarriers, released, passVars>>

ImageStateTracker_register(id, handle, aspect_mask, layout) ==
    /\ ncalls < MaxCalls
    /\ ncalls' = ncalls + 1
    /\ IF id \in DOMAIN images
       THEN /\ UNCHANGED <<images, imgHist>>
            /\ lastCall' = RegisterCall("image_register", id, RetErr,
                                <<images[id]>>, <<imgHist[id]>>, Len(imgBarriers),
                                <<handle, aspect_mask, layout>>)
       ELSE /\ images' = MapInsert(images, id, ImageState_new(handle, aspect_mask, layout))
            /\ imgHist' = MapInsert(imgHist, id, NewHist(handle, aspect_mask, layout))
            /\ lastCall' = RegisterCall("image_register", id, RetOk,
                                <<>>, <<>>, Len(imgBarriers),
                                <<handle, aspect_mask, layout>>)
    /\ UNCHANGED <<buffers, bufHist, bufBarriers, imgBarriers, released, passVars>>

ImageStateTracker_update_state_read(id) ==
    /\ ncalls < MaxCalls
    /\ ncalls' = ncalls + 1
    /\ IF id \in DOMAIN images
       THEN LET r == ImageState_update_state_read(images[id]) IN
            /\ images' = [images EXCEPT ![id] = r.state]
            /\ imgBarriers' = imgBarriers \o r.pushed
            /\ imgHist' = [imgHist EXCEPT ![id] =
                              HistAfterUpdate(@, {TRANSFER_READ}, r.pushed)]
            /\ lastCall' = Call("image_update_state_read", id, TRUE, FALSE,
                                [tag |-> "Some", handle |-> r.state.handle],
                                <<images[id]>>, <<imgHist[id]>>, Len(imgBarriers))
       ELSE /\ UNCHANGED <<images, imgBarriers, imgHist>>
            /\ lastCall' = Call("image_update_state_read", id, TRUE, FALSE, RetNone,
                                <<>>, <<>>, Len(imgBarriers))
    /\ UNCHANGED <<buffers, bufHist, bufBarriers, released, passVars>>

ImageStateTracker_update_state_write(id) ==
    /\ ncalls < MaxCalls
    /\ ncalls' = ncalls + 1
    /\ IF id \in DOMAIN images
       THEN LET r == ImageState_update_state_write(images[id]) IN
            /\ images' = [images EXCEPT ![id] = r.state]
            /\ imgBarriers' = imgBarriers \o r.pushed
            /\ imgHist' = [imgHist EXCEPT ![id] =
                              HistAfterUpdate(@, {TRANSFER_WRITE}, r.pushed)]
            /\ lastCall' = Call("image_update_state_write", id, FALSE, TRUE,
                                [tag |-> "Some", handle |-> r.state.handle],
                                <<images[id]>>, <<imgHist[id]>>, Len(imgBarriers))
       ELSE /\ UNCHANGED <<images, imgBarriers, imgHist>>
            /\ lastCall' = Call("image_update_state_write", id, FALSE, TRUE, RetNone,
                                <<>>, <<>>, Len(imgBarriers))
    /\ UNCHANGED <<buffers, bufHist, bufBarriers, released, passVars>>

\* release that drops every entry of the map.
ImageStateTracker_release_Clear(id) ==
    /\ ncalls < MaxCalls
    /\ ncalls' = ncalls + 1
    /\ IF id \in DOMAIN images
       THEN /\ images' = EmptyMap
            /\ released' = MapInsert(released, id, images[id])
            /\ imgHist' = MapRemove(imgHist, id)
            /\ lastCall' = Call("image_release", id, FALSE, FALSE,
                                [tag |-> "Some", handle |-> images[id].handle,
                                 aspect_mask |-> images[id].aspect_mask,
                                 access_mask |-> PendingAccessMask(images[id]),
                                 layout |-> images[id].layout],
                                <<images[id]>>, <<imgHist[id]>>, Len(imgBarriers))
       ELSE /\ UNCHANGED <<images, imgHist, released>>
            /\ lastCall' = Call("image_release", id, FALSE, FALSE, RetNone,
                                <<>>, <<>>, Len(imgBarriers))
    /\ UNCHANGED <<buffers, bufHist, bufBarriers, imgBarriers, passVars>>

ImageStateTracker_release(id) ==
    /\ ncalls < MaxCalls
    /\ ncalls' = ncalls + 1
    /\ IF id \in DOMAIN images
       THEN /\ images' = MapRemove(images, id)
            /\ released' = MapInsert(released, id, images[id])
            /\ imgHist' = MapRemove(imgHist, id)
            /\ lastCall' = Call("image_release", id, FALSE, FALSE,
                                [tag |-> "Some", handle |-> images[id].handle,
                                 aspect_mask |-> images[id].aspect_mask,
                                 access_mask |-> PendingAccessMask(images[id]),
                                 layout |-> images[id].layout],
                                <<images[id]>>, <<imgHist[id]>>, Len(imgBarriers))
       ELSE /\ UNCHANGED <<images, imgHist, released>>
            /\ lastCall' = Call("image_release", id, FALSE, FALSE, RetNone,
                                <<>>, <<>>, Len(imgBarriers))
    /\ UNCHANGED <<buffers, bufHist, bufBarriers, imgBarriers, passVars>>

Next ==
    \/ \E id \in BufferIds, handle \in BufferHandles : BufferStateTracker_register(id, handle)
    \/ \E id \in BufferIds, read \in BOOLEAN, write \in BOOLEAN :
          BufferStateTracker_update_state(id, read, write)
    \/ \E id \in BufferIds : BufferStateTracker_release(id)
    \/ \E id \in ImageIds, img \in ImageInputs, layout \in Layouts :
          ImageStateTracker_register(id, img[1], img[2], layout)
    \/ \E id \in ImageIds : ImageStateTracker_update_state_read(id)
    \/ \E id \in ImageIds : ImageStateTracker_update_state_write(id)
    \/ \E id \in ImageIds : ImageStateTracker_release(id)

Spec == Init /\ [][Next]_vars

TypeOK ==
    /\ DOMAIN buffers \subseteq BufferIds
    /\ DOMAIN images \subseteq ImageIds
    /\ DOMAIN bufHist = DOMAIN buffers
    /\ DOMAIN imgHist = DOMAIN images
    /\ ncalls \in 0..MaxCalls

(***************************************************************************)
(* PassRecorder: one action per method; new and drop take two steps each,  *)
(* one per call into the Share that other threads hold as well             *)
(***************************************************************************)
Live(t) == t \in DOMAIN recorders /\ recorders[t].pc = "live"

\* new, lines 57-61: take the pass id or panic
PassRecorder_new(t) ==
    /\ t \notin DOMAIN recorders
    /\ LET r == Share_try_start_pass_id(share)
       IN IF r.id = <<>>
          THEN /\ passCall' = PassCall("new", t, TRUE, Len(tasks))
               /\ UNCHANGED <<share, tasks, recorders, shaderUsed>>
          ELSE /\ Len(tasks) < MaxTasks
               /\ share' = r.share
               /\ recorders' = MapInsert(recorders, t,
                                  [pc |-> "new", id |-> r.id[1],
                                   used_shaders |-> {}, used_global_image |-> {},
                                   immediate_meshes |-> 0, immediate_buffer |-> FALSE])
               /\ passCall' = PassCall("new", t, FALSE, Len(tasks))
               /\ UNCHANGED <<tasks, shaderUsed>>
    /\ UNCHANGED trackerVars

\* new, lines 63-79: take the immediate buffer, push StartPass, build Self
PassRecorder_new_StartPass(t) ==
    /\ t \in DOMAIN recorders
    /\ recorders[t].pc = "new"
    /\ tasks' = Share_push_task(tasks, Task("StartPass", recorders[t].id, "", "", "", -1))
    /\ recorders' = [recorders EXCEPT ![t] =
                        [pc |-> "live", id |-> recorders[t].id,
                         used_shaders |-> {}, used_global_image |-> {},
                         immediate_meshes |-> 0, immediate_buffer |-> TRUE]]
    /\ passCall' = PassCall("new_StartPass", t, FALSE, Len(tasks))
    /\ UNCHANGED <<share, shaderUsed, trackerVars>>

PassRecorder_use_output(t) ==
    /\ Live(t)
    /\ Len(tasks) < MaxTasks
    /\ tasks' = Share_push_task(tasks, Task("UseOutput", recorders[t].id, "", "", "", -1))
    /\ passCall' = PassCall("use_output", t, FALSE, Len(tasks))
    /\ UNCHANGED <<share, recorders, shaderUsed, trackerVars>>

PassRecorder_update_uniform(t, shader) ==
    /\ Live(t)
    /\ LET u == PassRecorder_use_shader(recorders[t], tasks, shaderUsed, shader)
           q == Share_push_task(u.tasks,
                    Task("UpdateUniform", u.self.id, shader, "", "", -1))
       IN /\ Len(q) <= MaxTasks
          /\ tasks' = q
          /\ recorders' = [recorders EXCEPT ![t] = u.self]
          /\ shaderUsed' = u.used
    /\ passCall' = ShaderCall("update_uniform", t, FALSE, Len(tasks), shader, "")
    /\ UNCHANGED <<share, trackerVars>>

\* update_texture that pushes UseGlobalImage whenever the shader is new.
PassRecorder_update_texture_PerShader(t, image, shader) ==
    /\ Live(t)
    /\ LET u == PassRecorder_use_shader(recorders[t], tasks, shaderUsed, shader)
           first == shader \notin recorders[t].used_shaders
           q1 == IF first
                 THEN Share_push_task(u.tasks,
                          Task("UseGlobalImage", u.self.id, "", image, "", -1))
                 ELSE u.tasks
           q == Share_push_task(q1,
                    Task("UpdateTexture", u.self.id, shader, image, "", -1))
       IN /\ Len(q) <= MaxTasks
          /\ tasks' = q
          /\ recorders' = [recorders EXCEPT ![t] =
                              [u.self EXCEPT !.used_global_image = @ \cup {image}]]
          /\ shaderUsed' = u.used
    /\ passCall' = ShaderCall("update_texture", t, FALSE, Len(tasks), shader, image)
    /\ UNCHANGED <<share, trackerVars>>

PassRecorder_update_texture(t, image, shader) ==
    /\ Live(t)
    /\ LET u == PassRecorder_use_shader(recorders[t], tasks, shaderUsed, shader)
           first == image \notin u.self.used_global_image
           q1 == IF first
                 THEN Share_push_task(u.tasks,
                          Task("UseGlobalImage", u.self.id, "", image, "", -1))
                 ELSE u.tasks
           q == Share_push_task(q1,
                    Task("UpdateTexture", u.self.id, shader, image, "", -1))
       IN /\ Len(q) <= MaxTasks
          /\ tasks' = q
          /\ recorders' = [recorders EXCEPT ![t] =
                              [u.self EXCEPT !.used_global_image = @ \cup {image}]]
          /\ shaderUsed' = u.used
    /\ passCall' = ShaderCall("update_texture", t, FALSE, Len(tasks), shader, image)
    /\ UNCHANGED <<share, trackerVars>>

PassRecorder_upload_immediate(t) ==
    /\ Live(t)
    /\ recorders[t].immediate_meshes < MaxMeshes
    /\ recorders' = [recorders EXCEPT ![t].immediate_meshes = @ + 1]
    /\ passCall' = PassCall("upload_immediate", t, FALSE, Len(tasks))
    /\ UNCHANGED <<share, tasks, shaderUsed, trackerVars>>

\* draw_immediate: use_shader comes before the lookup of the mesh, whose
\* unwrap panics on an id that upload_immediate did not return
PassRecorder_draw_immediate(t, id, shader) ==
    /\ Live(t)
    /\ LET u == PassRecorder_use_shader(recorders[t], tasks, shaderUsed, shader)
           found == id < u.self.immediate_meshes
           q == IF found
                THEN Share_push_task(u.tasks,
                         Task("Draw", u.self.id, shader, "", "", id))
                ELSE u.tasks
       IN /\ Len(q) <= MaxTasks
          /\ tasks' = q
          /\ recorders' = [recorders EXCEPT ![t] = u.self]
          /\ shaderUsed' = u.used
          /\ passCall' = ShaderCall("draw_immediate", t, ~found, Len(tasks), shader, "")
    /\ UNCHANGED <<share, trackerVars>>

PassRecorder_draw_global(t, mesh, shader) ==
    /\ Live(t)
    /\ LET u == PassRecorder_use_shader(recorders[t], tasks, shaderUsed, shader)
           q == Share_push_task(
                    Share_push_task(u.tasks,
                        Task("UseGlobalMesh", u.self.id, "", "", mesh, -1)),
                    Task("Draw", u.self.id, shader, "", mesh, -1))
       IN /\ Len(q) <= MaxTasks
          /\ tasks' = q
          /\ recorders' = [recorders EXCEPT ![t] = u.self]
          /\ shaderUsed' = u.used
    /\ passCall' = ShaderCall("draw_global", t, FALSE, Len(tasks), shader, "")
    /\ UNCHANGED <<share, trackerVars>>

\* drop that ends the pass id before it pushes EndPass.
PassRecorder_drop_EndFirst(t) ==
    /\ Live(t)
    /\ share' = Share_end_pass_id(share)
    /\ recorders' = [recorders EXCEPT ![t].pc = "drop"]
    /\ passCall' = PassCall("drop", t, FALSE, Len(tasks))
    /\ UNCHANGED <<tasks, shaderUsed, trackerVars>>

\* drop, line 176: push EndPass with the immediate buffer taken out
PassRecorder_drop(t) ==
    /\ Live(t)
    /\ Len(tasks) < MaxTasks
    /\ tasks' = Share_push_task(tasks, Task("EndPass", recorders[t].id, "", "", "", -1))
    /\ recorders' = [recorders EXCEPT ![t].pc = "drop", ![t].immediate_buffer = FALSE]
    /\ passCall' = PassCall("drop", t, FALSE, Len(tasks))
    /\ UNCHANGED <<share, shaderUsed, trackerVars>>

\* drop, line 177: end the pass id; the recorder is gone
PassRecorder_drop_end_pass_id(t) ==
    /\ t \in DOMAIN recorders
    /\ recorders[t].pc = "drop"
    /\ share' = Share_end_pass_id(share)
    /\ recorders' = MapRemove(recorders, t)
    /\ passCall' = PassCall("drop_end_pass_id", t, FALSE, Len(tasks))
    /\ UNCHANGED <<tasks, shaderUsed, trackerVars>>

PassNext ==
    \/ \E t \in Threads : PassRecorder_new(t)
    \/ \E t \in Threads : PassRecorder_new_StartPass(t)
    \/ \E t \in Threads : PassRecorder_use_output(t)
    \/ \E t \in Threads, shader \in Shaders : PassRecorder_update_uniform(t, shader)
    \/ \E t \in Threads, image \in GlobalImages, shader \in Shaders :
          PassRecorder_update_texture(t, image, shader)
    \/ \E t \in Threads : PassRecorder_upload_immediate(t)
    \/ \E t \in Threads, id \in 0..(MaxMeshes - 1), shader \in Shaders :
          PassRecorder_draw_immediate(t, id, shader)
    \/ \E t \in Threads, mesh \in GlobalMeshes, shader \in Shaders :
          PassRecorder_draw_global(t, mesh, shader)
    \/ \E t \in Threads : PassRecorder_drop(t)
    \/ \E t \in Threads : PassRecorder_drop_end_pass_id(t)

PassSpec == Init /\ [][PassNext]_vars

(***************************************************************************)
(* Reading the most recent call                                            *)
(***************************************************************************)
IsBufferUpdate == lastCall.op = "buffer_update_state" /\ lastCall.ret.tag = "Some"
IsImageRead == lastCall.op = "image_update_state_read" /\ lastCall.ret.tag = "Some"
IsImageWrite == lastCall.op = "image_update_state_write" /\ lastCall.ret.tag = "Some"
IsImageUpdate == IsImageRead \/ IsImageWrite
IsUpdate == IsBufferUpdate \/ IsImageUpdate

\* Entry and history of the called id before the call (successful calls on a
\* registered id only), and the entry after a successful update.
Pre == lastCall.pre[1]
PreHist == lastCall.preHist[1]
PostBuffer == buffers[lastCall.id]
PostImage == images[lastCall.id]

\* The barriers the call appended to the Vec it was given.
LastPushed ==
    IF IsBufferUpdate
    THEN SubSeq(bufBarriers, lastCall.sinkLen + 1, Len(bufBarriers))
    ELSE SubSeq(imgBarriers, lastCall.sinkLen + 1, Len(imgBarriers))

\* The access the call announces: update(read, write), update_read, update_write.
LastRequested == BufferRequested(lastCall.read, lastCall.write)

\* Two accesses to one resource conflict unless both are reads.
Conflict(e, l) == ~(e = TRANSFER_READ /\ l = TRANSFER_READ)

\* The layout the announced image access requires.
RequiredLayout == IF IsImageRead THEN TRANSFER_SRC_OPTIMAL ELSE TRANSFER_DST_OPTIMAL

(***************************************************************************)
(* C1 - C10                                                                *)
(***************************************************************************)
\* C1 (sufficiency): when an update announces an access of kind l and an
\* earlier update on the same id announced a conflicting access of kind e
\* that no barrier since then has in its source mask together with l in its
\* destination mask, the call itself appends a barrier with e in the source
\* access mask and l in the destination access mask.
C1_Sufficiency ==
    IsUpdate =>
        \A e \in AccessKinds, l \in LastRequested :
            (Conflict(e, l) /\ <<e, l>> \in PreHist.uncovered)
                => Covers(LastPushed, e, l)

\* C1, buffers only: the buffer tracker is sufficient.
C1_BufferSufficiency ==
    IsBufferUpdate =>
        \A e \in AccessKinds, l \in LastRequested :
            (Conflict(e, l) /\ <<e, l>> \in PreHist.uncovered)
                => Covers(LastPushed, e, l)

\* C2 (minimality): an update appends a barrier only if an earlier access
\* that no later barrier has flushed conflicts with the announced access, or,
\* for an image, the stored layout differs from the required one.
C2_Minimality ==
    (IsUpdate /\ LastPushed # <<>>) =>
        \/ \E e \in PreHist.unflushed, l \in LastRequested : Conflict(e, l)
        \/ IsImageUpdate /\ Pre.layout # RequiredLayout

\* C2, images only: the image tracker never appends a redundant barrier.
C2_ImageMinimality ==
    (IsImageUpdate /\ LastPushed # <<>>) =>
        \/ \E e \in PreHist.unflushed, l \in LastRequested : Conflict(e, l)
        \/ Pre.layout # RequiredLayout

\* C3 (buffer barrier rule): update(read, write) appends exactly one barrier
\* iff (read and write_pending) or (write and (write_pending or
\* read_pending)), none otherwise; its source access is TRANSFER_WRITE when
\* write is false and TRANSFER_READ|TRANSFER_WRITE when write is true, its
\* destination access TRANSFER_READ|TRANSFER_WRITE.
C3_BufferBarrierRule ==
    IsBufferUpdate =>
        LET fire == \/ lastCall.read /\ Pre.write_pending
                    \/ lastCall.write /\ (Pre.write_pending \/ Pre.read_pending)
        IN /\ Len(bufBarriers) = lastCall.sinkLen + (IF fire THEN 1 ELSE 0)
           /\ fire =>
                /\ bufBarriers[Len(bufBarriers)].src_access_mask =
                      (IF lastCall.write THEN {TRANSFER_READ, TRANSFER_WRITE}
                                         ELSE {TRANSFER_WRITE})
                /\ bufBarriers[Len(bufBarriers)].dst_access_mask =
                      {TRANSFER_READ, TRANSFER_WRITE}

\* C3 witness: a read of a buffer with a pending write appended a barrier.
C3_Witness ==
    /\ IsBufferUpdate
    /\ lastCall.read /\ ~lastCall.write
    /\ Pre.write_pending
    /\ Len(bufBarriers) = lastCall.sinkLen + 1

\* C4 (image update_read rule): update_read appends exactly one barrier iff
\* the stored layout is not TRANSFER_SRC_OPTIMAL or write_pending; the
\* barrier has source TRANSFER_WRITE, destination TRANSFER_READ, old_layout
\* the layout before the call, new_layout TRANSFER_SRC_OPTIMAL; afterwards
\* the entry is in TRANSFER_SRC_OPTIMAL with read_pending and not
\* write_pending.
C4_ImageReadRule ==
    IsImageRead =>
        LET fire == Pre.layout # TRANSFER_SRC_OPTIMAL \/ Pre.write_pending
            b == imgBarriers[Len(imgBarriers)]
        IN /\ Len(imgBarriers) = lastCall.sinkLen + (IF fire THEN 1 ELSE 0)
           /\ fire =>
                /\ b.src_access_mask = {TRANSFER_WRITE}
                /\ b.dst_access_mask = {TRANSFER_READ}
                /\ b.old_layout = Pre.layout
                /\ b.new_layout = TRANSFER_SRC_OPTIMAL
                /\ PostImage.layout = TRANSFER_SRC_OPTIMAL
                /\ ~PostImage.write_pending
                /\ PostImage.read_pending

\* C4 witness: update_read on an image with a pending write appended a barrier.
C4_Witness ==
    /\ IsImageRead
    /\ Pre.write_pending
    /\ Len(imgBarriers) = lastCall.sinkLen + 1

\* C5 (image update_write rule): update_write appends exactly one barrier iff
\* the stored layout is not TRANSFER_DST_OPTIMAL or read_pending or
\* write_pending; the barrier has source TRANSFER_READ|TRANSFER_WRITE,
\* destination TRANSFER_WRITE, old_layout the layout before the call and
\* new_layout TRANSFER_DST_OPTIMAL.
C5_ImageWriteRule ==
    IsImageWrite =>
        LET fire == \/ Pre.layout # TRANSFER_DST_OPTIMAL
                    \/ Pre.read_pending
                    \/ Pre.write_pending
            b == imgBarriers[Len(imgBarriers)]
        IN /\ Len(imgBarriers) = lastCall.sinkLen + (IF fire THEN 1 ELSE 0)
           /\ fire =>
                /\ b.src_access_mask = {TRANSFER_READ, TRANSFER_WRITE}
                /\ b.dst_access_mask = {TRANSFER_WRITE}
                /\ b.old_layout = Pre.layout
                /\ b.new_layout = TRANSFER_DST_OPTIMAL

\* C5 witness: update_write on an image already in TRANSFER_DST_OPTIMAL with a
\* pending write appended a barrier.
C5_Witness ==
    /\ IsImageWrite
    /\ Pre.layout = TRANSFER_DST_OPTIMAL
    /\ Pre.write_pending
    /\ Len(imgBarriers) = lastCall.sinkLen + 1

\* C6: after every successful update_write the entry has layout
\* TRANSFER_DST_OPTIMAL, write_pending true and read_pending false.
C6_WritePostcondition ==
    IsImageWrite =>
        /\ PostImage.layout = TRANSFER_DST_OPTIMAL
        /\ PostImage.write_pending
        /\ ~PostImage.read_pending

\* C7: when update_read appends no barrier the entry is left unchanged and
\* read_pending is true before and after the call.
C7_ReadWithoutBarrier ==
    (IsImageRead /\ Len(imgBarriers) = lastCall.sinkLen) =>
        /\ PostImage = Pre
        /\ Pre.read_pending
        /\ PostImage.read_pending

\* C8: no registered image ever has read_pending and write_pending both true.
C8_AtMostOnePending ==
    \A id \in DOMAIN images :
        ~(images[id].read_pending /\ images[id].write_pending)

\* C8 witness: update_read acted on an image whose write was pending, and the
\* entry now has read_pending.
C8_Witness ==
    /\ IsImageRead
    /\ Pre.write_pending
    /\ PostImage.read_pending

\* C9: after any successful update_read or update_write exactly one of
\* read_pending and write_pending is true.
C9_ExactlyOnePending ==
    IsImageUpdate => (PostImage.read_pending # PostImage.write_pending)

\* C10 as stated: a registered buffer has a pending flag iff some update call
\* succeeded on it since its registration, whatever the arguments.
C10_PendingIffUpdated ==
    \A id \in DOMAIN buffers :
        (buffers[id].read_pending \/ buffers[id].write_pending)
            <=> bufHist[id].updated

\* C10 amended: a registered buffer has a pending flag iff some update call
\* with read or write true succeeded on it since its registration.
C10_PendingIffAccessed ==
    \A id \in DOMAIN buffers :
        (buffers[id].read_pending \/ buffers[id].write_pending)
            <=> bufHist[id].accessed

\* C10 witness: two registered buffers were both updated, one only with
\* update(false, false) and one with an access, and only the latter has a
\* pending flag.
C10_Witness ==
    \E a \in DOMAIN buffers, b \in DOMAIN buffers :
        /\ bufHist[a].updated /\ ~bufHist[a].accessed
        /\ ~(buffers[a].read_pending \/ buffers[a].write_pending)
        /\ bufHist[b].accessed
        /\ (buffers[b].read_pending \/ buffers[b].write_pending)

(***************************************************************************)
(* C11 - C20                                                               *)
(***************************************************************************)
IsBufferRelease == lastCall.op = "buffer_release" /\ lastCall.ret.tag = "Some"
IsImageRelease == lastCall.op = "image_release" /\ lastCall.ret.tag = "Some"
IsRelease == IsBufferRelease \/ IsImageRelease

\* C11: while a buffer stays registered no pending flag goes from true to
\* false, and an update(read, write) leaves read_pending = old read_pending
\* or read and write_pending = old write_pending or write, also when it
\* appends a barrier.
C11_FlagsAccumulate ==
    [][\A id \in (DOMAIN buffers) \cap (DOMAIN buffers') :
          /\ buffers[id].read_pending => buffers'[id].read_pending
          /\ buffers[id].write_pending => buffers'[id].write_pending
          /\ (lastCall'.op = "buffer_update_state" /\ lastCall'.id = id) =>
                /\ buffers'[id].read_pending =
                      (buffers[id].read_pending \/ lastCall'.read)
                /\ buffers'[id].write_pending =
                      (buffers[id].write_pending \/ lastCall'.write)]_vars

\* C11 witness: a read-only update appended a barrier for a pending write and
\* write_pending is still true.
C11_Witness ==
    /\ IsBufferUpdate
    /\ ~lastCall.write
    /\ Pre.write_pending
    /\ Len(bufBarriers) = lastCall.sinkLen + 1
    /\ PostBuffer.write_pending

\* C12: the stored layout of a registered image is the new_layout of the
\* barrier most recently appended for it since its registration, or the
\* registration layout if none was appended.
C12_LayoutFollowsBarriers ==
    /\ \A id \in DOMAIN images :
          images[id].layout =
              IF imgHist[id].barriers = <<>>
              THEN imgHist[id].reg_layout
              ELSE imgHist[id].barriers[Len(imgHist[id].barriers)].new_layout
    /\ (IsImageUpdate /\ Len(imgBarriers) > lastCall.sinkLen) =>
          PostImage.layout = imgBarriers[Len(imgBarriers)].new_layout

\* C12 witness: an image with two barriers since registration whose layout is
\* that of the second one and not that of the first.
C12_Witness ==
    \E id \in DOMAIN images :
        /\ Len(imgHist[id].barriers) = 2
        /\ imgHist[id].barriers[1].new_layout # imgHist[id].barriers[2].new_layout
        /\ images[id].layout = imgHist[id].barriers[2].new_layout

\* C13: release of a registered id removes the entry and returns the
\* registered handle and a mask with TRANSFER_READ iff read_pending and
\* TRANSFER_WRITE iff write_pending (images: also the registered aspect mask
\* and the stored layout); update and release on an id without entry return
\* None, and only register gives an id an entry again.
C13_Release ==
    [][/\ lastCall'.op = "buffer_release" =>
            IF lastCall'.id \in DOMAIN buffers
            THEN /\ lastCall'.ret.tag = "Some"
                 /\ lastCall'.ret.handle = bufHist[lastCall'.id].reg_handle
                 /\ lastCall'.ret.access_mask \subseteq AccessKinds
                 /\ (TRANSFER_READ \in lastCall'.ret.access_mask)
                       <=> buffers[lastCall'.id].read_pending
                 /\ (TRANSFER_WRITE \in lastCall'.ret.access_mask)
                       <=> buffers[lastCall'.id].write_pending
                 /\ lastCall'.id \notin DOMAIN buffers'
            ELSE lastCall'.ret.tag = "None"
       /\ lastCall'.op = "image_release" =>
            IF lastCall'.id \in DOMAIN images
            THEN /\ lastCall'.ret.tag = "Some"
                 /\ lastCall'.ret.handle = imgHist[lastCall'.id].reg_handle
                 /\ lastCall'.ret.aspect_mask = imgHist[lastCall'.id].reg_aspect
                 /\ lastCall'.ret.layout = images[lastCall'.id].layout
                 /\ lastCall'.ret.access_mask \subseteq AccessKinds
                 /\ (TRANSFER_READ \in lastCall'.ret.access_mask)
                       <=> images[lastCall'.id].read_pending
                 /\ (TRANSFER_WRITE \in lastCall'.ret.access_mask)
                       <=> images[lastCall'.id].write_pending
                 /\ lastCall'.id \notin DOMAIN images'
            ELSE lastCall'.ret.tag = "None"
       /\ (lastCall'.op = "buffer_update_state" /\ lastCall'.id \notin DOMAIN buffers)
            => lastCall'.ret.tag = "None"
       /\ (lastCall'.op \in {"image_update_state_read", "image_update_state_write"}
             /\ lastCall'.id \notin DOMAIN images)
            => lastCall'.ret.tag = "None"
       /\ \A id \in (DOMAIN buffers') \ (DOMAIN buffers) :
            lastCall'.op = "buffer_register" /\ lastCall'.id = id
       /\ \A id \in (DOMAIN images') \ (DOMAIN images) :
            lastCall'.op = "image_register" /\ lastCall'.id = id]_vars

\* C13 witness: an image with a pending read was released; the entry is gone
\* and the returned mask is TRANSFER_READ.
C13_Witness ==
    /\ IsImageRelease
    /\ Pre.read_pending
    /\ lastCall.ret.access_mask = {TRANSFER_READ}
    /\ lastCall.id \notin DOMAIN images

\* C14: every access kind announced since registration that no later barrier
\* of the id has in its source access mask is in the mask release returns.
C14_ResidualCoversOutstanding ==
    IsRelease => PreHist.unflushed \subseteq lastCall.ret.access_mask

\* C14, buffers only.
C14_BufferResidual ==
    IsBufferRelease => PreHist.unflushed \subseteq lastCall.ret.access_mask

\* C15: register of an id that has an entry returns Err and changes neither
\* the entry nor any other tracker state nor a Vec of barriers, whatever
\* handle, aspect mask and layout the call supplies.
C15_DuplicateRegister ==
    [][/\ (lastCall'.op = "buffer_register" /\ lastCall'.id \in DOMAIN buffers) =>
            /\ lastCall'.ret.tag = "Err"
            /\ buffers' = buffers
            /\ bufBarriers' = bufBarriers /\ imgBarriers' = imgBarriers
       /\ (lastCall'.op = "image_register" /\ lastCall'.id \in DOMAIN images) =>
            /\ lastCall'.ret.tag = "Err"
            /\ images' = images
            /\ bufBarriers' = bufBarriers /\ imgBarriers' = imgBarriers]_vars

\* C15 witness: register of a live image with another handle, aspect mask and
\* layout returned Err and the updated entry is as before.
C15_Witness ==
    /\ lastCall.op = "image_register"
    /\ lastCall.ret.tag = "Err"
    /\ lastCall.input[1] # Pre.handle
    /\ lastCall.input[2] # Pre.aspect_mask
    /\ lastCall.input[3] # Pre.layout
    /\ Pre.read_pending
    /\ images[lastCall.id] = Pre

\* C16: update, update_read, update_write and release on an id without entry
\* return None, append nothing and leave both maps unchanged.
C16_UnknownId ==
    [][/\ (lastCall'.op \in {"buffer_update_state", "buffer_release"}
             /\ lastCall'.id \notin DOMAIN buffers) =>
            /\ lastCall'.ret.tag = "None"
            /\ buffers' = buffers /\ images' = images
            /\ bufBarriers' = bufBarriers /\ imgBarriers' = imgBarriers
       /\ (lastCall'.op \in {"image_update_state_read", "image_update_state_write",
                             "image_release"}
             /\ lastCall'.id \notin DOMAIN images) =>
            /\ lastCall'.ret.tag = "None"
            /\ buffers' = buffers /\ images' = images
            /\ bufBarriers' = bufBarriers /\ imgBarriers' = imgBarriers]_vars

\* C16 witness: an update on an unregistered image returned None while the
\* tracker holds another image and the Vec holds a barrier.
C16_Witness ==
    /\ lastCall.op = "image_update_state_write"
    /\ lastCall.ret.tag = "None"
    /\ lastCall.id \notin DOMAIN images
    /\ DOMAIN images # {}
    /\ imgBarriers # <<>>

\* C17: the barriers an update appends carry the handle given to the register
\* call that created the entry; the update returns that handle and so does
\* the later release.
C17_RegisteredHandle ==
    /\ IsBufferUpdate =>
          /\ lastCall.ret.handle = PreHist.reg_handle
          /\ \A i \in (lastCall.sinkLen + 1)..Len(bufBarriers) :
                bufBarriers[i].buffer = PreHist.reg_handle
    /\ IsImageUpdate =>
          /\ lastCall.ret.handle = PreHist.reg_handle
          /\ \A i \in (lastCall.sinkLen + 1)..Len(imgBarriers) :
                imgBarriers[i].image = PreHist.reg_handle
    /\ IsBufferRelease =>
          /\ lastCall.ret.handle = PreHist.reg_handle
          /\ \A i \in 1..Len(PreHist.barriers) :
                PreHist.barriers[i].buffer = lastCall.ret.handle
    /\ IsImageRelease =>
          /\ lastCall.ret.handle = PreHist.reg_handle
          /\ \A i \in 1..Len(PreHist.barriers) :
                PreHist.barriers[i].image = lastCall.ret.handle

\* C17 witness: a buffer for which a barrier was appended is released while
\* another buffer with a different handle is registered.
C17_Witness ==
    /\ IsBufferRelease
    /\ PreHist.barriers # <<>>
    /\ \E other \in DOMAIN buffers : buffers[other].handle # lastCall.ret.handle

\* C18: every call leaves the barriers already in a Vec in place, an update
\* appends at most one barrier at the end of its own Vec, and register and
\* release change no Vec.
C18_AppendOnly ==
    [][/\ Len(bufBarriers') \in {Len(bufBarriers), Len(bufBarriers) + 1}
       /\ SubSeq(bufBarriers', 1, Len(bufBarriers)) = bufBarriers
       /\ Len(imgBarriers') \in {Len(imgBarriers), Len(imgBarriers) + 1}
       /\ SubSeq(imgBarriers', 1, Len(imgBarriers)) = imgBarriers
       /\ lastCall'.op # "buffer_update_state" => bufBarriers' = bufBarriers
       /\ lastCall'.op \notin {"image_update_state_read", "image_update_state_write"}
            => imgBarriers' = imgBarriers]_vars

\* C18 witness: an update appended a barrier behind a different barrier that
\* was already in the Vec.
C18_Witness ==
    /\ IsBufferUpdate
    /\ lastCall.sinkLen >= 1
    /\ Len(bufBarriers) = lastCall.sinkLen + 1
    /\ bufBarriers[Len(bufBarriers)] # bufBarriers[lastCall.sinkLen]

\* C19: release of an id that saw no update since its registration returns
\* an empty access mask and, for an image, the registration layout.
C19_ReleaseWithoutUpdate ==
    /\ (IsBufferRelease /\ PreHist.calls = <<>>) => lastCall.ret.access_mask = {}
    /\ (IsImageRelease /\ PreHist.calls = <<>>) =>
          /\ lastCall.ret.access_mask = {}
          /\ lastCall.ret.layout = PreHist.reg_layout

\* C19 witness: an image registered in TRANSFER_DST_OPTIMAL is released
\* without any update.
C19_Witness ==
    /\ IsImageRelease
    /\ PreHist.calls = <<>>
    /\ PreHist.reg_layout = TRANSFER_DST_OPTIMAL

\* All updates since registration were update(read = true, write = false),
\* and there was at least one.
ReadOnly(h) ==
    /\ h.calls # <<>>
    /\ \A i \in 1..Len(h.calls) : h.calls[i] = {TRANSFER_READ}

\* C20: a buffer that saw only update(true, false) calls since registration
\* has had no barrier appended, none of those calls appended one, and its
\* release returns exactly TRANSFER_READ.
C20_BufferReadOnly ==
    /\ \A id \in DOMAIN buffers :
          ReadOnly(bufHist[id]) => bufHist[id].barriers = <<>>
    /\ (IsBufferUpdate /\ ReadOnly(bufHist[lastCall.id])) =>
          Len(bufBarriers) = lastCall.sinkLen
    /\ (IsBufferRelease /\ ReadOnly(PreHist)) =>
          lastCall.ret.access_mask = {TRANSFER_READ}

\* C20 witness: a buffer is released after two read-only updates and nothing else.
C20_Witness ==
    /\ IsBufferRelease
    /\ ReadOnly(PreHist)
    /\ Len(PreHist.calls) >= 2

(***************************************************************************)
(* C21 - C30                                                               *)
(***************************************************************************)
Last(q) == q[Len(q)]

\* C21: an update_read whose predecessor among the updates of the image was
\* an update_read appends no barrier and leaves the entry unchanged; an image
\* registered in a layout other than TRANSFER_SRC_OPTIMAL that saw only
\* update_read calls has exactly one barrier, pushed by the first call.
C21_ImageReadIdempotent ==
    /\ (IsImageRead /\ PreHist.calls # <<>> /\ Last(PreHist.calls) = {TRANSFER_READ}) =>
          /\ Len(imgBarriers) = lastCall.sinkLen
          /\ PostImage = Pre
    /\ \A id \in DOMAIN images :
          (ReadOnly(imgHist[id]) /\ imgHist[id].reg_layout # TRANSFER_SRC_OPTIMAL) =>
              /\ Len(imgHist[id].barriers) = 1
              /\ imgHist[id].pushes[1] = 1

\* C21 witness: a third update_read in a row on an image registered in
\* UNDEFINED; one barrier since registration.
C21_Witness ==
    /\ IsImageRead
    /\ ReadOnly(PreHist)
    /\ Len(PreHist.calls) = 2
    /\ PreHist.reg_layout = UNDEFINED
    /\ Len(imgHist[lastCall.id].barriers) = 1

\* C22: the first update after register of a buffer appends no barrier; after
\* register, write the second write appends one barrier with source and
\* destination TRANSFER_READ|TRANSFER_WRITE, and release after the two
\* writes returns exactly TRANSFER_WRITE.
C22_FirstBufferUpdate ==
    /\ (IsBufferUpdate /\ PreHist.calls = <<>>) =>
          Len(bufBarriers) = lastCall.sinkLen
    /\ (IsBufferUpdate /\ PreHist.calls = <<{TRANSFER_WRITE}>>
          /\ LastRequested = {TRANSFER_WRITE}) =>
          /\ Len(bufBarriers) = lastCall.sinkLen + 1
          /\ Last(bufBarriers).src_access_mask = {TRANSFER_WRITE, TRANSFER_READ}
          /\ Last(bufBarriers).dst_access_mask = {TRANSFER_READ, TRANSFER_WRITE}
    /\ (IsBufferRelease /\ PreHist.calls = <<{TRANSFER_WRITE}, {TRANSFER_WRITE}>>) =>
          /\ PreHist.pushes = <<0, 1>>
          /\ lastCall.ret.access_mask = {TRANSFER_WRITE}

\* C22 witness: release after register, write, write.
C22_Witness ==
    /\ IsBufferRelease
    /\ PreHist.calls = <<{TRANSFER_WRITE}, {TRANSFER_WRITE}>>

\* C23 as stated: of two consecutive update(false, true) calls on a buffer
\* each appends one barrier and the two barriers are equal; a read that
\* follows write, read finds write_pending and appends a barrier.
C23_ConsecutiveWrites ==
    /\ (IsBufferUpdate /\ LastRequested = {TRANSFER_WRITE}
          /\ PreHist.calls # <<>> /\ Last(PreHist.calls) = {TRANSFER_WRITE}) =>
          /\ Len(bufBarriers) = lastCall.sinkLen + 1
          /\ Last(PreHist.pushes) = 1
          /\ Last(bufBarriers) = Last(PreHist.barriers)
    /\ (IsBufferUpdate /\ LastRequested = {TRANSFER_READ}
          /\ Len(PreHist.calls) >= 2
          /\ PreHist.calls[Len(PreHist.calls) - 1] = {TRANSFER_WRITE}
          /\ Last(PreHist.calls) = {TRANSFER_READ}) =>
          /\ Pre.write_pending
          /\ Len(bufBarriers) = lastCall.sinkLen + 1

\* C23 amended: the same, for two consecutive writes that come after an
\* earlier update of the buffer that announced an access.
C23_ConsecutiveWritesAfterAccess ==
    /\ (IsBufferUpdate /\ LastRequested = {TRANSFER_WRITE}
          /\ PreHist.calls # <<>> /\ Last(PreHist.calls) = {TRANSFER_WRITE}
          /\ \E i \in 1..(Len(PreHist.calls) - 1) : PreHist.calls[i] # {}) =>
          /\ Len(bufBarriers) = lastCall.sinkLen + 1
          /\ Last(PreHist.pushes) = 1
          /\ Last(bufBarriers) = Last(PreHist.barriers)
    /\ (IsBufferUpdate /\ LastRequested = {TRANSFER_READ}
          /\ Len(PreHist.calls) >= 2
          /\ PreHist.calls[Len(PreHist.calls) - 1] = {TRANSFER_WRITE}
          /\ Last(PreHist.calls) = {TRANSFER_READ}) =>
          /\ Pre.write_pending
          /\ Len(bufBarriers) = lastCall.sinkLen + 1

\* C23 witness: the second of two consecutive writes that follow a read
\* appended the same barrier as the first.
C23_Witness ==
    /\ IsBufferUpdate
    /\ LastRequested = {TRANSFER_WRITE}
    /\ PreHist.calls = <<{TRANSFER_READ}, {TRANSFER_WRITE}>>
    /\ Len(bufBarriers) = lastCall.sinkLen + 1
    /\ Last(bufBarriers) = Last(PreHist.barriers)

\* C23 second witness state: the third call of write, read, read appended a
\* barrier.
C23_WitnessReadAgain ==
    /\ IsBufferUpdate
    /\ LastRequested = {TRANSFER_READ}
    /\ PreHist.calls = <<{TRANSFER_WRITE}, {TRANSFER_READ}>>
    /\ Len(bufBarriers) = lastCall.sinkLen + 1

\* Only update_read calls, or none, since registration.
OnlyReads(h) == \A i \in 1..Len(h.calls) : h.calls[i] = {TRANSFER_READ}

\* C24: an image registered in TRANSFER_SRC_OPTIMAL that saw only update_read
\* calls has no barrier and read_pending false, and its release returns the
\* empty mask and TRANSFER_SRC_OPTIMAL.
C24_RedundantRead ==
    /\ \A id \in DOMAIN images :
          (imgHist[id].reg_layout = TRANSFER_SRC_OPTIMAL /\ OnlyReads(imgHist[id])) =>
              /\ imgHist[id].barriers = <<>>
              /\ ~images[id].read_pending
    /\ (IsImageRead /\ PreHist.reg_layout = TRANSFER_SRC_OPTIMAL /\ OnlyReads(PreHist)) =>
          Len(imgBarriers) = lastCall.sinkLen
    /\ (IsImageRelease /\ PreHist.reg_layout = TRANSFER_SRC_OPTIMAL /\ OnlyReads(PreHist)) =>
          /\ lastCall.ret.access_mask = {}
          /\ lastCall.ret.layout = TRANSFER_SRC_OPTIMAL

\* C24 witness: release of an image registered in TRANSFER_SRC_OPTIMAL after
\* two update_read calls.
C24_Witness ==
    /\ IsImageRelease
    /\ PreHist.reg_layout = TRANSFER_SRC_OPTIMAL
    /\ PreHist.calls = <<{TRANSFER_READ}, {TRANSFER_READ}>>

\* C25: the stored aspect mask of an image is the registered one, every
\* barrier appended for the image carries it and release returns it.
C25_AspectMaskFixed ==
    /\ \A id \in DOMAIN images :
          /\ images[id].aspect_mask = imgHist[id].reg_aspect
          /\ \A i \in 1..Len(imgHist[id].barriers) :
                imgHist[id].barriers[i].subresource_range.aspect_mask
                    = imgHist[id].reg_aspect
    /\ IsImageUpdate =>
          \A i \in (lastCall.sinkLen + 1)..Len(imgBarriers) :
              imgBarriers[i].subresource_range.aspect_mask = PreHist.reg_aspect
    /\ IsImageRelease => lastCall.ret.aspect_mask = PreHist.reg_aspect

\* C25 witness: an image registered with DEPTH is released after two barriers.
C25_Witness ==
    /\ IsImageRelease
    /\ Len(PreHist.barriers) = 2
    /\ PreHist.reg_aspect = {"DEPTH"}
    /\ lastCall.ret.aspect_mask = {"DEPTH"}

\* C26: every barrier in either Vec has source and destination stage
\* TRANSFER and covers the whole resource: offset 0 and size WHOLE_SIZE for a
\* buffer; base mip level 0, REMAINING_MIP_LEVELS, base array layer 0 and
\* REMAINING_ARRAY_LAYERS for an image.
C26_WholeResourceTransfer ==
    /\ \A i \in 1..Len(bufBarriers) :
          /\ bufBarriers[i].src_stage_mask = {TRANSFER}
          /\ bufBarriers[i].dst_stage_mask = {TRANSFER}
          /\ bufBarriers[i].offset = 0
          /\ bufBarriers[i].size = WHOLE_SIZE
    /\ \A i \in 1..Len(imgBarriers) :
          /\ imgBarriers[i].src_stage_mask = {TRANSFER}
          /\ imgBarriers[i].dst_stage_mask = {TRANSFER}
          /\ imgBarriers[i].subresource_range.base_mip_level = 0
          /\ imgBarriers[i].subresource_range.level_count = REMAINING_MIP_LEVELS
          /\ imgBarriers[i].subresource_range.base_array_layer = 0
          /\ imgBarriers[i].subresource_range.layer_count = REMAINING_ARRAY_LAYERS

\* C26 witness: both Vecs hold a barrier.
C26_Witness ==
    /\ bufBarriers # <<>>
    /\ imgBarriers # <<>>
    /\ bufBarriers[1].size = WHOLE_SIZE
    /\ imgBarriers[1].subresource_range.level_count = REMAINING_MIP_LEVELS

\* C27: the old_layout of each barrier appended for an image is the
\* new_layout of the barrier appended before it for that image since its
\* registration, and the registration layout for the first one.
C27_LayoutChain ==
    /\ \A id \in DOMAIN images :
          \A i \in 1..Len(imgHist[id].barriers) :
              imgHist[id].barriers[i].old_layout =
                  IF i = 1 THEN imgHist[id].reg_layout
                           ELSE imgHist[id].barriers[i - 1].new_layout
    /\ (IsImageUpdate /\ Len(imgBarriers) > lastCall.sinkLen) =>
          Last(imgBarriers).old_layout =
              IF PreHist.barriers = <<>> THEN PreHist.reg_layout
                                         ELSE Last(PreHist.barriers).new_layout

\* C27 witness: the second barrier of an image registered in UNDEFINED was
\* just appended; its old_layout is the first barrier's new_layout.
C27_Witness ==
    /\ IsImageUpdate
    /\ Len(imgBarriers) > lastCall.sinkLen
    /\ PreHist.reg_layout = UNDEFINED
    /\ Len(PreHist.barriers) = 1
    /\ Last(imgBarriers).old_layout = PreHist.barriers[1].new_layout

\* C28: a registered image with write_pending is in TRANSFER_DST_OPTIMAL, one
\* with read_pending is in TRANSFER_SRC_OPTIMAL, and no barrier appended by
\* update_read has old_layout TRANSFER_SRC_OPTIMAL.
C28_PendingImpliesLayout ==
    /\ \A id \in DOMAIN images :
          /\ images[id].write_pending => images[id].layout = TRANSFER_DST_OPTIMAL
          /\ images[id].read_pending => images[id].layout = TRANSFER_SRC_OPTIMAL
    /\ (IsImageRead /\ Len(imgBarriers) > lastCall.sinkLen) =>
          Last(imgBarriers).old_layout # TRANSFER_SRC_OPTIMAL
    /\ \A i \in 1..Len(imgBarriers) :
          imgBarriers[i].new_layout = TRANSFER_SRC_OPTIMAL =>
              imgBarriers[i].old_layout # TRANSFER_SRC_OPTIMAL

\* C28 witness: two registered images, one with a pending write and one with
\* a pending read.
C28_Witness ==
    \E a \in DOMAIN images, b \in DOMAIN images :
        /\ images[a].write_pending /\ images[a].layout = TRANSFER_DST_OPTIMAL
        /\ images[b].read_pending /\ images[b].layout = TRANSFER_SRC_OPTIMAL

\* C29: once a barrier was appended for a registered image every update_write
\* on it appends a barrier, also directly after another update_write.
C29_WriteAlwaysFiresAfterBarrier ==
    (IsImageWrite /\ PreHist.barriers # <<>>) =>
        /\ Len(imgBarriers) = lastCall.sinkLen + 1
        /\ Last(imgBarriers).new_layout = TRANSFER_DST_OPTIMAL

\* C29 witness: an update_write directly after an update_write appended a
\* TRANSFER_DST_OPTIMAL to TRANSFER_DST_OPTIMAL barrier.
C29_Witness ==
    /\ IsImageWrite
    /\ PreHist.barriers # <<>>
    /\ Last(PreHist.calls) = {TRANSFER_WRITE}
    /\ Len(imgBarriers) = lastCall.sinkLen + 1
    /\ Last(imgBarriers).old_layout = TRANSFER_DST_OPTIMAL
    /\ Last(imgBarriers).new_layout = TRANSFER_DST_OPTIMAL

\* C30: a call on one id leaves the entry of every other registered id of
\* both trackers as it was, and a barrier it appends carries the handle of
\* the entry the call was made on.
C30_EntriesIndependent ==
    [][/\ \A id \in DOMAIN buffers :
             (lastCall'.op \notin {"buffer_register", "buffer_update_state", "buffer_release"}
                \/ lastCall'.id # id) =>
                 /\ id \in DOMAIN buffers'
                 /\ buffers'[id] = buffers[id]
       /\ \A id \in DOMAIN images :
             (lastCall'.op \notin {"image_register", "image_update_state_read",
                                   "image_update_state_write", "image_release"}
                \/ lastCall'.id # id) =>
                 /\ id \in DOMAIN images'
                 /\ images'[id] = images[id]
       /\ \A i \in (Len(bufBarriers) + 1)..Len(bufBarriers') :
             bufBarriers'[i].buffer = buffers[lastCall'.id].handle
       /\ \A i \in (Len(imgBarriers) + 1)..Len(imgBarriers') :
             imgBarriers'[i].image = images[lastCall'.id].handle]_vars

\* C30 witness: an update appended a barrier for one image while another
\* image with a different handle and a pending write is registered.
C30_Witness ==
    /\ IsImageUpdate
    /\ Len(imgBarriers) = lastCall.sinkLen + 1
    /\ \E other \in (DOMAIN images) \ {lastCall.id} :
          /\ images[other].write_pending
          /\ images[other].handle # Last(imgBarriers).image

(***************************************************************************)
(* C31                                                                     *)
(***************************************************************************)
\* C31: release removes the entry, and a register of an id that was released
\* and is not registered again succeeds and creates an entry with both
\* pending flags false and the supplied handle (for an image also the
\* supplied aspect mask and layout), whatever the released entry held; the
\* first buffer update on the new entry appends no barrier.
C31_RegisterAfterRelease ==
    [][/\ (lastCall'.op \in {"buffer_release", "image_release"}
              /\ lastCall'.ret.tag = "Some") =>
             /\ lastCall'.id \notin (DOMAIN buffers') \cup (DOMAIN images')
             /\ lastCall'.id \in DOMAIN released'
       /\ (lastCall'.op = "buffer_register" /\ lastCall'.id \in DOMAIN released
              /\ lastCall'.id \notin DOMAIN buffers) =>
             /\ lastCall'.ret.tag = "Ok"
             /\ buffers'[lastCall'.id] = [handle |-> lastCall'.input[1],
                                          read_pending |-> FALSE,
                                          write_pending |-> FALSE]
       /\ (lastCall'.op = "image_register" /\ lastCall'.id \in DOMAIN released
              /\ lastCall'.id \notin DOMAIN images) =>
             /\ lastCall'.ret.tag = "Ok"
             /\ images'[lastCall'.id] = [handle |-> lastCall'.input[1],
                                         aspect_mask |-> lastCall'.input[2],
                                         layout |-> lastCall'.input[3],
                                         read_pending |-> FALSE,
                                         write_pending |-> FALSE]
       /\ (lastCall'.op = "buffer_update_state" /\ lastCall'.id \in DOMAIN released
              /\ lastCall'.id \in DOMAIN buffers
              /\ bufHist[lastCall'.id].calls = <<>>) =>
             bufBarriers' = bufBarriers]_vars

\* C31 witness: a buffer released with a pending write was registered again
\* with another handle, and the first write on the new entry appended nothing.
C31_Witness ==
    /\ IsBufferUpdate
    /\ lastCall.write
    /\ PreHist.calls = <<>>
    /\ lastCall.id \in DOMAIN released
    /\ released[lastCall.id].write_pending
    /\ released[lastCall.id].handle # Pre.handle
    /\ Len(bufBarriers) = lastCall.sinkLen
    /\ ~buffers[lastCall.id].read_pending

\* C31 witness for images: an image released in TRANSFER_DST_OPTIMAL with a
\* pending write was registered again in another layout.
C31_WitnessImage ==
    /\ lastCall.op = "image_register"
    /\ lastCall.ret.tag = "Ok"
    /\ lastCall.id \in DOMAIN released
    /\ released[lastCall.id].write_pending
    /\ images[lastCall.id].layout # released[lastCall.id].layout
    /\ ~images[lastCall.id].write_pending

(***************************************************************************)
(* C32 - C33: the task stream of the pass recorder                         *)
(***************************************************************************)
TasksOf(pass, kind) == {i \in 1..Len(tasks) : tasks[i].pass = pass /\ tasks[i].kind = kind}

Passes == {tasks[i].pass : i \in 1..Len(tasks)}

ShaderTasks == {"UpdateUniform", "UpdateTexture", "Draw"}

\* C32: within one pass UseShader(s) is pushed at most once per shader s,
\* exactly once for every shader a call was made with, each time with one
\* inc_shader_used(s), and before every UpdateUniform, UpdateTexture or Draw
\* task of s; UseGlobalImage is pushed at most once per image and before
\* every UpdateTexture task of that image.
C32_UseOncePerPass ==
    /\ \A p \in Passes, s \in Shaders :
          Cardinality({i \in TasksOf(p, "UseShader") : tasks[i].shader = s}) <= 1
    /\ \A i \in 1..Len(tasks) :
          tasks[i].kind \in ShaderTasks =>
              \E j \in 1..(i - 1) : /\ tasks[j].kind = "UseShader"
                                    /\ tasks[j].pass = tasks[i].pass
                                    /\ tasks[j].shader = tasks[i].shader
    /\ (passCall.shader # "") =>
          Cardinality({i \in TasksOf(recorders[passCall.thread].id, "UseShader") :
                          tasks[i].shader = passCall.shader}) = 1
    /\ \A s \in Shaders :
          shaderUsed[s] = Cardinality({i \in 1..Len(tasks) :
                              tasks[i].kind = "UseShader" /\ tasks[i].shader = s})
    /\ \A p \in Passes, g \in GlobalImages :
          Cardinality({i \in TasksOf(p, "UseGlobalImage") : tasks[i].image = g}) <= 1
    /\ \A i \in 1..Len(tasks) :
          tasks[i].kind = "UpdateTexture" =>
              \E j \in 1..(i - 1) : /\ tasks[j].kind = "UseGlobalImage"
                                    /\ tasks[j].pass = tasks[i].pass
                                    /\ tasks[j].image = tasks[i].image

\* C32 witness: one pass in which a shader has two tasks after its single
\* UseShader and an image has UpdateTexture tasks of two shaders after its
\* single UseGlobalImage.
C32_Witness ==
    \E i, j, k \in 1..Len(tasks) :
        /\ i < j /\ j < k
        /\ tasks[i].pass = tasks[j].pass /\ tasks[j].pass = tasks[k].pass
        /\ tasks[i].kind = "UpdateTexture"
        /\ tasks[j].kind = "UpdateUniform"
        /\ tasks[k].kind = "UpdateTexture"
        /\ tasks[i].shader = tasks[j].shader
        /\ tasks[k].shader # tasks[i].shader
        /\ tasks[k].image = tasks[i].image
        /\ Cardinality(TasksOf(tasks[i].pass, "UseShader")) = 2
        /\ Cardinality(TasksOf(tasks[i].pass, "UseGlobalImage")) = 1

\* C33: StartPass is the first task of its pass and EndPass the last; the
\* pass id is still running while a pass has no EndPass and until drop has
\* pushed it; a new that finds a pass running panics and pushes nothing; a
\* task of another pass comes only after the EndPass of the earlier one.
C33_Bracketed ==
    /\ \A i \in 1..Len(tasks) :
          (tasks[i].kind = "StartPass") <=>
              (\A j \in 1..(i - 1) : tasks[j].pass # tasks[i].pass)
    /\ \A i \in 1..Len(tasks) :
          tasks[i].kind = "EndPass" =>
              \A j \in (i + 1)..Len(tasks) : tasks[j].pass # tasks[i].pass
    /\ \A i \in 1..Len(tasks), j \in 1..Len(tasks) :
          (i < j /\ tasks[i].pass # tasks[j].pass) =>
              \E k \in i..(j - 1) : /\ tasks[k].kind = "EndPass"
                                    /\ tasks[k].pass = tasks[i].pass
    /\ \A p \in Passes : TasksOf(p, "EndPass") = {} => share.running
    /\ \A t \in DOMAIN recorders :
          /\ share.running
          /\ recorders[t].pc = "drop" =>
                /\ Last(tasks).kind = "EndPass"
                /\ Last(tasks).pass = recorders[t].id
    /\ Cardinality(DOMAIN recorders) <= 1
    /\ (passCall.op = "new" /\ passCall.panicked) =>
          /\ Len(tasks) = passCall.tasksLen
          /\ passCall.thread \notin DOMAIN recorders

\* C33 witness: a second pass was started after the EndPass of the first,
\* and a new on the other thread has just panicked while it runs.
C33_Witness ==
    /\ passCall.op = "new"
    /\ passCall.panicked
    /\ \E t \in DOMAIN recorders : recorders[t].pc = "live"
    /\ Cardinality(Passes) = 2
    /\ Last(tasks).kind = "StartPass"
    /\ \E i \in 1..Len(tasks) : tasks[i].kind = "EndPass"
    /\ \E i \in 1..Len(tasks) : tasks[i].kind = "UseShader"
====
